---- MODULE Spec2Model ----
(***************************************************************************)
(* Model of the record/geometry conversion layer of rising:                *)
(*   rising/transforms/functional/utility.py                               *)
(*       box_to_seg, seg_to_box, instance_to_semantic, pop_keys,           *)
(*       filter_keys                                                       *)
(*   phdata/transforms/format.py                                           *)
(*       MapToSeq.forward, SeqToMap.forward                                *)
(*                                                                         *)
(* A Python dict is an insertion-ordered sequence of <<key, value>> pairs  *)
(* with unique keys.  A tensor is a record [shape, dtype, cells] whose     *)
(* cells map 0-based coordinate tuples to labels.  A call that raises      *)
(* leaves ret.exc # "none".                                                *)
(***************************************************************************)
EXTENDS Integers, Sequences, FiniteSets, TLC

\* pc       "ready" before the call is made, "done" once it has returned
\*          or raised
\* call     the call: its function and the arguments as passed
\* ret      what the call returned or raised
\* data     the caller's dict handed to pop_keys / filter_keys (mutated in
\*          place by the call)
\* keys     self.keys of the MapToSeq / SeqToMap transform
\* out      the caller's output buffer handed to box_to_seg
\* instance the caller's instance volume handed to instance_to_semantic
VARIABLES pc, call, ret, data, keys, out, instance

vars == <<pc, call, ret, data, keys, out, instance>>

(* ------------------------------ bounds --------------------------------- *)

\* longest explicit key list / transform key tuple
MaxKeys == 3
\* longest tuple handed to SeqToMap.forward
MaxTuple == 4
\* longest box list handed to box_to_seg
MaxBoxes == 2
\* longest class map handed to instance_to_semantic
MaxCls == 2
\* largest instance label in an instance volume
MaxLabel == 3

KeyUniverse == {"a", "b", "c"}
ValueUniverse == {10, 20}

\* a variable the call under way does not use
Unused == <<>>

\* ret before the call has returned
NoReturn == [exc |-> "pending"]

(* ------------------------- sequences and dicts ------------------------- *)

SeqsUpTo(S, n) == UNION {[1..m -> S] : m \in 0..n}

Range(s) == {s[i] : i \in 1..Len(s)}

NoDup(s) == \A i, j \in 1..Len(s) : i # j => s[i] # s[j]

MaxOf(S) == CHOOSE x \in S : \A y \in S : y <= x
MinOf(S) == CHOOSE x \in S : \A y \in S : x <= y

\* list(d.keys()): the keys in insertion order
DictKeys(d) == [i \in 1..Len(d) |-> d[i][1]]

KeySet(d) == {d[i][1] : i \in 1..Len(d)}

HasKey(d, k) == k \in KeySet(d)

\* d[k] for a present key
DictGet(d, k) == d[CHOOSE i \in 1..Len(d) : d[i][1] = k][2]

\* the dict as a mapping: Python's == on dicts ignores insertion order
AsMap(d) == [k \in KeySet(d) |-> DictGet(d, k)]

\* d[k] = v: overwrite in place, or insert at the end
DictSet(d, k, v) ==
    IF HasKey(d, k)
    THEN [i \in 1..Len(d) |-> IF d[i][1] = k THEN <<k, v>> ELSE d[i]]
    ELSE Append(d, <<k, v>>)

\* the dict left by d.pop(k) for a present key
DictDel(d, k) == SelectSeq(d, LAMBDA p : p[1] # k)

\* every dict over the key universe, in every insertion order
Dicts ==
    {d \in SeqsUpTo(KeyUniverse \X ValueUniverse, Cardinality(KeyUniverse)) :
        NoDup(DictKeys(d))}

\* [k for k in seq if test(k)] with test given by the set it accepts
Comprehend(seq, accepted) == SelectSeq(seq, LAMBDA k : k \in accepted)

(* ------------------------------ KeyFilter ------------------------------ *)

\* A selector is an explicit key list or a callable; a callable is given
\* by the set of keys for which it returns True.
ListSelector(l) == [callable |-> FALSE, list |-> l, accepts |-> {}]
PredSelector(S) == [callable |-> TRUE, list |-> <<>>, accepts |-> S]

Selectors ==
    {ListSelector(l) : l \in SeqsUpTo(KeyUniverse, MaxKeys)}
        \cup {PredSelector(S) : S \in SUBSET KeyUniverse}

\* a variant of pop_loop that reads data[k] and leaves the entry in data
RECURSIVE pop_loop_keeps_entry(_, _, _)
pop_loop_keeps_entry(d, ks, popped) ==
    IF ks = <<>> THEN [exc |-> "none", data |-> d, popped |-> popped]
    ELSE IF ~HasKey(d, Head(ks))
         THEN [exc |-> "KeyError", data |-> d, popped |-> popped]
         ELSE pop_loop_keeps_entry(d, Tail(ks),
                       DictSet(popped, Head(ks), DictGet(d, Head(ks))))

\* the loop `for k in keys: popped[k] = data.pop(k)`; data.pop(k) raises
\* KeyError on an absent key and leaves the earlier pops done
RECURSIVE pop_loop(_, _, _)
pop_loop(d, ks, popped) ==
    IF ks = <<>> THEN [exc |-> "none", data |-> d, popped |-> popped]
    ELSE IF ~HasKey(d, Head(ks))
         THEN [exc |-> "KeyError", data |-> d, popped |-> popped]
         ELSE pop_loop(DictDel(d, Head(ks)), Tail(ks),
                       DictSet(popped, Head(ks), DictGet(d, Head(ks))))

\* a variant of pop_keys that skips the keys the dict does not have, as
\* data.pop(k, None) would
pop_keys_skips_absent(d, sel, return_popped) ==
    LET ks == IF sel.callable THEN Comprehend(DictKeys(d), sel.accepts)
              ELSE sel.list
        r == pop_loop(d, Comprehend(ks, KeySet(d)), <<>>)
    IN  [exc |-> "none", data |-> r.data, value |-> r.data,
         pair |-> return_popped,
         popped |-> IF return_popped THEN r.popped ELSE <<>>]

\* pop_keys(data, keys, return_popped): .data is the caller's dict after
\* the call, .value what is returned (the same dict object), .popped the
\* second element of the returned pair when return_popped is set
pop_keys(d, sel, return_popped) ==
    LET ks == IF sel.callable THEN Comprehend(DictKeys(d), sel.accepts)
              ELSE sel.list
        r == pop_loop(d, ks, <<>>)
    IN  IF r.exc # "none"
        THEN [exc |-> r.exc, data |-> r.data, value |-> <<>>,
              pair |-> FALSE, popped |-> <<>>]
        ELSE [exc |-> "none", data |-> r.data, value |-> r.data,
              pair |-> return_popped,
              popped |-> IF return_popped THEN r.popped ELSE <<>>]

\* a variant of filter_keys that pops the selected keys and not the others
filter_keys_inverted(d, sel, return_popped) ==
    LET ks == IF sel.callable THEN Comprehend(DictKeys(d), sel.accepts)
              ELSE sel.list
        keys_to_pop == Comprehend(DictKeys(d), Range(ks))
    IN  pop_keys(d, ListSelector(keys_to_pop), return_popped)

\* filter_keys(data, keys, return_popped)
filter_keys(d, sel, return_popped) ==
    LET ks == IF sel.callable THEN Comprehend(DictKeys(d), sel.accepts)
              ELSE sel.list
        keys_to_pop == Comprehend(DictKeys(d), KeyUniverse \ Range(ks))
    IN  pop_keys(d, ListSelector(keys_to_pop), return_popped)

InitKeyFilter ==
    /\ pc = "ready"
    /\ data \in Dicts
    /\ call \in {[fn |-> f, data |-> data, keys |-> sel, return_popped |-> b] :
                    f \in {"pop_keys", "filter_keys"}, sel \in Selectors,
                    b \in BOOLEAN}
    /\ ret = NoReturn
    /\ keys = Unused /\ out = Unused /\ instance = Unused

PopKeys ==
    /\ pc = "ready" /\ call.fn = "pop_keys"
    /\ LET r == pop_keys(data, call.keys, call.return_popped)
       IN  /\ ret' = [exc |-> r.exc, value |-> r.value, pair |-> r.pair,
                      popped |-> r.popped]
           /\ data' = r.data
    /\ pc' = "done"
    /\ UNCHANGED <<call, keys, out, instance>>

FilterKeys ==
    /\ pc = "ready" /\ call.fn = "filter_keys"
    /\ LET r == filter_keys(data, call.keys, call.return_popped)
       IN  /\ ret' = [exc |-> r.exc, value |-> r.value, pair |-> r.pair,
                      popped |-> r.popped]
           /\ data' = r.data
    /\ pc' = "done"
    /\ UNCHANGED <<call, keys, out, instance>>

(* ---------------------------- RecordReshaper --------------------------- *)

\* tuple(data[_k] for _k in self.keys): KeyError on the first absent key
RECURSIVE map_to_seq_loop(_, _, _)
map_to_seq_loop(d, ks, acc) ==
    IF ks = <<>> THEN [exc |-> "none", value |-> acc]
    ELSE IF ~HasKey(d, Head(ks)) THEN [exc |-> "KeyError", value |-> <<>>]
         ELSE map_to_seq_loop(d, Tail(ks), Append(acc, DictGet(d, Head(ks))))

\* a variant of MapToSeq.forward that walks the dict and not self.keys:
\* tuple(v for k, v in data.items() if k in self.keys)
MapToSeq_forward_dict_order(self_keys, d) ==
    LET ks == Comprehend(DictKeys(d), Range(self_keys))
    IN  [exc |-> "none", value |-> [i \in 1..Len(ks) |-> DictGet(d, ks[i])]]

\* MapToSeq(*self_keys).forward(**d)
MapToSeq_forward(self_keys, d) == map_to_seq_loop(d, self_keys, <<>>)

\* {_key: data[_idx] for _idx, _key in enumerate(self.keys)}: IndexError
\* at the first position the tuple does not have; a repeated key keeps its
\* first place in the dict and takes the later value
RECURSIVE seq_to_map_loop(_, _, _, _)
seq_to_map_loop(ks, t, idx, acc) ==
    IF idx > Len(ks) THEN [exc |-> "none", value |-> acc]
    ELSE IF idx > Len(t) THEN [exc |-> "IndexError", value |-> <<>>]
         ELSE seq_to_map_loop(ks, t, idx + 1, DictSet(acc, ks[idx], t[idx]))

\* a variant of SeqToMap.forward that stops at the shorter of the two:
\* dict(zip(self.keys, data))
SeqToMap_forward_zip(self_keys, t) ==
    seq_to_map_loop(SubSeq(self_keys, 1, MinOf({Len(self_keys), Len(t)})),
                    t, 1, <<>>)

\* SeqToMap(*self_keys).forward(*t)
SeqToMap_forward(self_keys, t) == seq_to_map_loop(self_keys, t, 1, <<>>)

\* a MapToSeq transform constructed with a key tuple, about to be applied
InitMapToSeq ==
    /\ pc = "ready"
    /\ keys \in SeqsUpTo(KeyUniverse, MaxKeys)
    /\ call \in {[fn |-> "MapToSeq.forward", data |-> d] : d \in Dicts}
    /\ ret = NoReturn
    /\ data = Unused /\ out = Unused /\ instance = Unused

\* a SeqToMap transform constructed with a key tuple, about to be applied
InitSeqToMap ==
    /\ pc = "ready"
    /\ keys \in SeqsUpTo(KeyUniverse, MaxKeys)
    /\ call \in {[fn |-> "SeqToMap.forward", data |-> t] :
                    t \in SeqsUpTo(ValueUniverse, MaxTuple)}
    /\ ret = NoReturn
    /\ data = Unused /\ out = Unused /\ instance = Unused

MapToSeqForward ==
    /\ pc = "ready" /\ call.fn = "MapToSeq.forward"
    /\ LET r == MapToSeq_forward(keys, call.data)
       IN  ret' = [exc |-> r.exc, value |-> r.value]
    /\ pc' = "done"
    /\ UNCHANGED <<call, data, keys, out, instance>>

SeqToMapForward ==
    /\ pc = "ready" /\ call.fn = "SeqToMap.forward"
    /\ LET r == SeqToMap_forward(keys, call.data)
       IN  ret' = [exc |-> r.exc, value |-> r.value]
    /\ pc' = "done"
    /\ UNCHANGED <<call, data, keys, out, instance>>

(* ------------------------------- tensors ------------------------------- *)

\* the 0-based coordinates of a tensor of the given shape
Coords(shape) ==
    {c \in [1..Len(shape) -> 0..(MaxOf(Range(shape)) - 1)] :
        \A i \in 1..Len(shape) : c[i] < shape[i]}

\* torch.zeros(*shape, dtype=dtype); dtype None is torch's default float
zeros(shape, dtype) ==
    [shape |-> shape,
     dtype |-> IF dtype = "None" THEN "float32" ELSE dtype,
     cells |-> [c \in Coords(shape) |-> 0]]

\* the positions start:stop selects on an axis of size n (Python slicing:
\* a negative bound counts from the end, bounds are clamped to 0..n)
SliceBound(i, n) ==
    IF i < 0 THEN (IF i + n < 0 THEN 0 ELSE i + n)
    ELSE IF i > n THEN n ELSE i

Slice(start, stop, n) ==
    {x \in 0..(n - 1) : SliceBound(start, n) <= x /\ x < SliceBound(stop, n)}

(* ----------------------------- BoxSegCodec ----------------------------- *)

\* a variant of paint_2d whose upper bounds are exclusive
paint_2d_exclusive(t, b, idx) ==
    LET n == Len(t.shape)
    IN  [t EXCEPT !.cells =
            [c \in DOMAIN t.cells |->
                IF /\ c[n - 1] \in Slice(b[1], b[3], t.shape[n - 1])
                   /\ c[n] \in Slice(b[2], b[4], t.shape[n])
                THEN idx ELSE t.cells[c]]]

\* out[..., box[0]:box[2] + 1, box[1]:box[3] + 1] = _idx
\* (a box is a 1-based sequence here: box[0] is b[1])
paint_2d(t, b, idx) ==
    LET n == Len(t.shape)
    IN  [t EXCEPT !.cells =
            [c \in DOMAIN t.cells |->
                IF /\ c[n - 1] \in Slice(b[1], b[3] + 1, t.shape[n - 1])
                   /\ c[n] \in Slice(b[2], b[4] + 1, t.shape[n])
                THEN idx ELSE t.cells[c]]]

\* out[..., box[0]:box[2] + 1, box[1]:box[3] + 1, box[4]:box[5] + 1] = _idx
paint_3d(t, b, idx) ==
    LET n == Len(t.shape)
    IN  [t EXCEPT !.cells =
            [c \in DOMAIN t.cells |->
                IF /\ c[n - 2] \in Slice(b[1], b[3] + 1, t.shape[n - 2])
                   /\ c[n - 1] \in Slice(b[2], b[4] + 1, t.shape[n - 1])
                   /\ c[n] \in Slice(b[5], b[6] + 1, t.shape[n])
                THEN idx ELSE t.cells[c]]]

\* for _idx, box in enumerate(boxes, 1): a box of another length raises
\* TypeError, three slices after the ellipsis on a tensor of fewer than
\* three axes raise IndexError; the boxes before it stay painted
RECURSIVE paint_loop(_, _, _)
paint_loop(t, boxes, idx) ==
    IF idx > Len(boxes) THEN [exc |-> "none", out |-> t]
    ELSE LET box == boxes[idx]
         IN  IF Len(box) = 4
             THEN paint_loop(paint_2d(t, box, idx), boxes, idx + 1)
             ELSE IF Len(box) = 6
                  THEN IF Len(t.shape) < 3
                       THEN [exc |-> "IndexError", out |-> t]
                       ELSE paint_loop(paint_3d(t, box, idx), boxes, idx + 1)
                  ELSE [exc |-> "TypeError", out |-> t]

\* a variant of box_to_seg that zeroes a buffer it is handed
box_to_seg_zeroing(boxes, shape, dtype, buffer) ==
    LET t == IF buffer = [shape |-> <<>>, dtype |-> "None", cells |-> <<>>]
             THEN zeros(shape, dtype)
             ELSE zeros(buffer.shape, buffer.dtype)
        r == paint_loop(t, boxes, 1)
    IN  [exc |-> r.exc, out |-> r.out,
         value |-> IF r.exc = "none" THEN r.out
                   ELSE [shape |-> <<>>, dtype |-> "None", cells |-> <<>>]]

\* box_to_seg(boxes, shape, dtype, out=buffer); buffer is NoBuffer for
\* out=None.  .out is the tensor painted into, whether or not the call
\* returned it.
NoBuffer == [shape |-> <<>>, dtype |-> "None", cells |-> <<>>]

box_to_seg(boxes, shape, dtype, buffer) ==
    LET t == IF buffer = NoBuffer THEN zeros(shape, dtype) ELSE buffer
        r == paint_loop(t, boxes, 1)
    IN  [exc |-> r.exc, out |-> r.out,
         value |-> IF r.exc = "none" THEN r.out ELSE NoBuffer]

\* the cells of seg holding label idx: (_seg == _idx).nonzero()
nonzero(seg, idx) == {c \in DOMAIN seg.cells : seg.cells[c] = idx}

\* [c for cv in zip(_mins[-dim + 2:], _maxs[-dim + 2:]) for c in cv]
\* from the 1-based position j on
RECURSIVE zip_flat(_, _, _)
zip_flat(mins, maxs, j) ==
    IF j > Len(mins) THEN <<>>
    ELSE <<mins[j], maxs[j]>> \o zip_flat(mins, maxs, j + 1)

\* a variant of instance_box that writes min, max axis by axis:
\* min0,max0,min1,max1[,min2,max2]
instance_box_interleaved(seg, dim, idx) ==
    LET instance_map == {c \in DOMAIN seg.cells : seg.cells[c] = idx}
        n == Len(seg.shape)
        _mins == [a \in 1..n |-> MinOf({c[a] : c \in instance_map})]
        _maxs == [a \in 1..n |-> MaxOf({c[a] : c \in instance_map})]
    IN  IF instance_map = {} THEN [exc |-> "IndexError", at |-> "min", box |-> <<>>]
        ELSE IF dim > n THEN [exc |-> "IndexError", at |-> "_mins[-dim]", box |-> <<>>]
        ELSE [exc |-> "none", at |-> "",
              box |-> zip_flat(_mins, _maxs, n - dim + 1)]

\* a variant of instance_box that yields an all-zero box for a label
\* without cells
instance_box_empty_ok(seg, dim, idx) ==
    LET instance_map == {c \in DOMAIN seg.cells : seg.cells[c] = idx}
        n == Len(seg.shape)
        _mins == [a \in 1..n |-> MinOf({c[a] : c \in instance_map})]
        _maxs == [a \in 1..n |-> MaxOf({c[a] : c \in instance_map})]
    IN  IF dim > n THEN [exc |-> "IndexError", at |-> "_mins[-dim]", box |-> <<>>]
        ELSE IF instance_map = {}
        THEN [exc |-> "none", at |-> "", box |-> [i \in 1..(2 * dim) |-> 0]]
        ELSE [exc |-> "none", at |-> "",
              box |-> <<_mins[n - dim + 1], _mins[n - dim + 2],
                        _maxs[n - dim + 1], _maxs[n - dim + 2]>>
                      \o (IF dim > 2 THEN zip_flat(_mins, _maxs, n - dim + 3)
                          ELSE <<>>)]

\* the body of the loop of seg_to_box for one label: min(dim=0) of an
\* empty index tensor raises (IndexError; RuntimeError in early torch
\* releases), and so does _mins[-dim] when the tensor has fewer than dim
\* axes; .at names the expression that raised
instance_box(seg, dim, idx) ==
    LET instance_map == nonzero(seg, idx)
        n == Len(seg.shape)
        _mins == [a \in 1..n |-> MinOf({c[a] : c \in instance_map})]
        _maxs == [a \in 1..n |-> MaxOf({c[a] : c \in instance_map})]
    IN  IF instance_map = {} THEN [exc |-> "IndexError", at |-> "min", box |-> <<>>]
        ELSE IF dim > n THEN [exc |-> "IndexError", at |-> "_mins[-dim]", box |-> <<>>]
        ELSE [exc |-> "none", at |-> "",
              box |-> <<_mins[n - dim + 1], _mins[n - dim + 2],
                        _maxs[n - dim + 1], _maxs[n - dim + 2]>>
                      \o (IF dim > 2 THEN zip_flat(_mins, _maxs, n - dim + 3)
                          ELSE <<>>)]

RECURSIVE seg_to_box_loop(_, _, _, _, _)
seg_to_box_loop(seg, dim, idx, stop, boxes) ==
    IF idx >= stop THEN [exc |-> "none", at |-> "", value |-> boxes]
    ELSE LET b == instance_box(seg, dim, idx)
         IN  IF b.exc # "none"
             THEN [exc |-> b.exc, at |-> b.at, value |-> <<>>]
             ELSE seg_to_box_loop(seg, dim, idx + 1, stop, Append(boxes, b.box))

\* seg_to_box(seg, dim): range(1, seg.max().item() + 1) raises TypeError
\* when the maximum is a float
seg_to_box(seg, dim) ==
    IF seg.dtype # "int64"
    THEN [exc |-> "TypeError", at |-> "range", value |-> <<>>]
    ELSE seg_to_box_loop(seg, dim, 1,
                         MaxOf({seg.cells[c] : c \in DOMAIN seg.cells}) + 1,
                         <<>>)

\* the shapes of the volumes: rows x columns, and a 3D grid
Shapes2D == {<<2, 3>>}
Shapes3D == {<<2, 1, 2>>}
BufferShapes == {<<2, 2>>}

DTypes == {"None", "int64"}

\* min0,min1,max0,max1 boxes with min <= max inside the last two axes
Boxes2D(shape) ==
    LET n == Len(shape)
    IN  {b \in [1..4 -> 0..(MaxOf(Range(shape)) - 1)] :
            /\ b[1] <= b[3] /\ b[3] < shape[n - 1]
            /\ b[2] <= b[4] /\ b[4] < shape[n]}

\* min0,min1,max0,max1,min2,max2 boxes with min <= max inside the grid
Boxes3D(shape) ==
    {b \in [1..6 -> 0..(MaxOf(Range(shape)) - 1)] :
        /\ b[1] <= b[3] /\ b[3] < shape[1]
        /\ b[2] <= b[4] /\ b[4] < shape[2]
        /\ b[5] <= b[6] /\ b[6] < shape[3]}

\* boxes that are not well formed for the volume: min > max on an axis,
\* a coordinate past the grid, a negative coordinate, a 3D box (well
\* formed for a 3D volume only), a box of a length that is neither 4 nor 6
OddBoxes ==
    {<<1, 0, 0, 1>>, <<0, 0, 5, 5>>, <<-1, 0, 1, 1>>, <<0, 0, 0, 0, 0, 0>>,
     <<0, 0, 1, 1, 0>>}

BoxUniverse(shape) ==
    IF Len(shape) = 2 THEN Boxes2D(shape) \cup OddBoxes
    ELSE Boxes3D(shape) \cup Boxes2D(shape) \cup OddBoxes

\* a caller's buffer holds whatever earlier use left in it
StaleLabels == {0, 9}

Buffers ==
    {[shape |-> sh, dtype |-> "int64", cells |-> cs] :
        sh \in BufferShapes, cs \in UNION {[Coords(x) -> StaleLabels] : x \in BufferShapes}}

\* box_to_seg(boxes, shape=shape, dtype=dtype)
InitBoxToSegAlloc ==
    /\ pc = "ready"
    /\ \E shape \in Shapes2D \cup Shapes3D :
        call \in {[fn |-> "box_to_seg", boxes |-> bs, shape |-> shape,
                   dtype |-> dt, out |-> NoBuffer] :
                     bs \in SeqsUpTo(BoxUniverse(shape), MaxBoxes),
                     dt \in DTypes}
    /\ out = NoBuffer
    /\ ret = NoReturn
    /\ data = Unused /\ keys = Unused /\ instance = Unused

\* box_to_seg(boxes, out=out) on a buffer the caller has used before
InitBoxToSegOut ==
    /\ pc = "ready"
    /\ out \in Buffers
    /\ call \in {[fn |-> "box_to_seg", boxes |-> bs, shape |-> out.shape,
                  dtype |-> "None", out |-> out] :
                    bs \in SeqsUpTo(BoxUniverse(out.shape), MaxBoxes)}
    /\ ret = NoReturn
    /\ data = Unused /\ keys = Unused /\ instance = Unused

BoxToSeg ==
    /\ pc = "ready" /\ call.fn = "box_to_seg"
    /\ LET r == box_to_seg(call.boxes, call.shape, call.dtype, out)
       IN  /\ ret' = [exc |-> r.exc, value |-> r.value]
           /\ out' = IF out = NoBuffer THEN out ELSE r.out
    /\ pc' = "done"
    /\ UNCHANGED <<call, data, keys, instance>>

\* every volume of a shape with labels 0..MaxLabel
Volumes(shape, dtypes) ==
    {[shape |-> shape, dtype |-> dt, cells |-> cs] :
        dt \in dtypes, cs \in [Coords(shape) -> 0..MaxLabel]}

\* seg_to_box(seg, dim) on a label volume
InitSegToBox ==
    /\ pc = "ready"
    /\ call \in {[fn |-> "seg_to_box", seg |-> v, dim |-> d] :
                    v \in Volumes(<<2, 2>>, {"int64", "float32"})
                            \cup Volumes(<<2, 1, 2>>, {"int64"}),
                    d \in {2, 3}}
    /\ ret = NoReturn
    /\ data = Unused /\ keys = Unused /\ out = Unused /\ instance = Unused

SegToBox ==
    /\ pc = "ready" /\ call.fn = "seg_to_box"
    /\ LET r == seg_to_box(call.seg, call.dim)
       IN  ret' = [exc |-> r.exc, at |-> r.at, value |-> r.value]
    /\ pc' = "done"
    /\ UNCHANGED <<call, data, keys, out, instance>>

(* ---------------------------- SemanticMapper --------------------------- *)

\* for idx, c in enumerate(cls, 1): seg[instance == idx] = c
RECURSIVE semantic_loop(_, _, _, _)
semantic_loop(seg, inst, cls, idx) ==
    IF idx > Len(cls) THEN seg
    ELSE semantic_loop(
            [seg EXCEPT !.cells =
                [c \in DOMAIN seg.cells |->
                    IF inst.cells[c] = idx THEN cls[idx] ELSE seg.cells[c]]],
            inst, cls, idx + 1)

\* a variant of instance_to_semantic whose seg starts as a copy of the
\* instance volume
instance_to_semantic_clone(inst, cls) ==
    [exc |-> "none", value |-> semantic_loop(inst, inst, cls, 1)]

\* instance_to_semantic(instance, cls); seg starts as zeros_like(instance)
instance_to_semantic(inst, cls) ==
    [exc |-> "none",
     value |-> semantic_loop(zeros(inst.shape, inst.dtype), inst, cls, 1)]

ClassIds == {5, 7}

InitInstanceToSemantic ==
    /\ pc = "ready"
    /\ instance \in Volumes(<<2, 2>>, {"int64"})
    /\ call \in {[fn |-> "instance_to_semantic", instance |-> instance,
                  cls |-> cl] : cl \in SeqsUpTo(ClassIds, MaxCls)}
    /\ ret = NoReturn
    /\ data = Unused /\ keys = Unused /\ out = Unused

InstanceToSemantic ==
    /\ pc = "ready" /\ call.fn = "instance_to_semantic"
    /\ LET r == instance_to_semantic(instance, call.cls)
       IN  ret' = [exc |-> r.exc, value |-> r.value]
    /\ pc' = "done"
    /\ UNCHANGED <<call, data, keys, out, instance>>

(* ---------------------------- specification ---------------------------- *)

Init ==
    \/ InitKeyFilter
    \/ InitMapToSeq
    \/ InitSeqToMap
    \/ InitBoxToSegAlloc
    \/ InitBoxToSegOut
    \/ InitSegToBox
    \/ InitInstanceToSemantic

Next ==
    \/ PopKeys
    \/ FilterKeys
    \/ MapToSeqForward
    \/ SeqToMapForward
    \/ BoxToSeg
    \/ SegToBox
    \/ InstanceToSemantic

Spec == Init /\ [][Next]_vars

(* ------------------------------- claims -------------------------------- *)

\* the sub-record of r over the key set K, as a mapping
Restrict(r, K) == [k \in K \cap KeySet(r) |-> DictGet(r, k)]

\* the call to fn has returned or raised
Done(fn) == pc = "done" /\ call.fn = fn

ListCall(fn) == Done(fn) /\ ~call.keys.callable

PredCall(fn) == Done(fn) /\ call.keys.callable

\* C1: pop_keys with an explicit key list K that names each key once and
\* only keys of r, removed part requested, returns (remaining, removed)
\* with disjoint key sets whose union is keys(r); removed maps each k in K
\* to r[k] and remaining maps every other key of r to its value.
C1_PopPartition ==
    (/\ ListCall("pop_keys") /\ call.return_popped
     /\ NoDup(call.keys.list)
     /\ Range(call.keys.list) \subseteq KeySet(call.data))
    => LET r == call.data
           K == Range(call.keys.list)
       IN  /\ ret.exc = "none" /\ ret.pair
           /\ KeySet(ret.value) \cap KeySet(ret.popped) = {}
           /\ KeySet(ret.value) \cup KeySet(ret.popped) = KeySet(r)
           /\ AsMap(ret.popped) = Restrict(r, K)
           /\ AsMap(ret.value) = Restrict(r, KeySet(r) \ K)

C1_Witness ==
    /\ ListCall("pop_keys") /\ call.return_popped
    /\ NoDup(call.keys.list) /\ Len(call.keys.list) = 2
    /\ Range(call.keys.list) \subseteq KeySet(call.data)
    /\ Len(call.data) = 3
    /\ ret.exc = "none" /\ Len(ret.popped) = 2 /\ Len(ret.value) = 1

\* the keys a selector selects in record r
Selected(sel, r) ==
    IF sel.callable THEN sel.accepts \cap KeySet(r) ELSE Range(sel.list)

\* C2: filter_keys with selector K (an explicit list of keys of r, or a
\* predicate selecting the keys K of r) returns the retained record
\* {k: r[k] for k in K} and, when requested, a removed record holding
\* exactly the entries of r whose key is not in K.
C2_FilterRetains ==
    (/\ Done("filter_keys")
     /\ Selected(call.keys, call.data) \subseteq KeySet(call.data))
    => LET r == call.data
           K == Selected(call.keys, call.data)
       IN  /\ ret.exc = "none"
           /\ AsMap(ret.value) = [k \in K |-> DictGet(r, k)]
           /\ ret.pair = call.return_popped
           /\ ret.pair => AsMap(ret.popped) = Restrict(r, KeySet(r) \ K)

C2_Witness ==
    /\ ListCall("filter_keys") /\ call.return_popped
    /\ Len(call.data) = 3
    /\ Cardinality(Range(call.keys.list)) = 2
    /\ Range(call.keys.list) \subseteq KeySet(call.data)
    /\ ret.exc = "none" /\ Len(ret.value) = 2 /\ Len(ret.popped) = 1

\* C3 as claimed: in the explicit-list form of pop_keys and of filter_keys
\* a list naming a key absent from the record ends in KeyError; the
\* predicate form never raises it.
C3_AbsentKeyRaisesInBoth ==
    /\ (\E fn \in {"pop_keys", "filter_keys"} :
            /\ ListCall(fn)
            /\ ~(Range(call.keys.list) \subseteq KeySet(call.data)))
       => ret.exc = "KeyError"
    /\ (\E fn \in {"pop_keys", "filter_keys"} : PredCall(fn))
       => ret.exc = "none"

\* C3 amended: pop_keys with an explicit list naming an absent key ends in
\* KeyError (it raises exactly when a key is absent at its turn: absent
\* from the record, or named a second time); filter_keys with an explicit
\* list never raises: keys of the list absent from the record are ignored
\* and the retained record is r over the listed keys that r has; the
\* predicate form of either never raises.
C3_AbsentKeyRaisesInPop ==
    /\ ListCall("pop_keys")
       => (ret.exc = "KeyError"
            <=> \/ ~(Range(call.keys.list) \subseteq KeySet(call.data))
                \/ ~NoDup(call.keys.list))
    /\ ListCall("filter_keys")
       => /\ ret.exc = "none"
          /\ AsMap(ret.value) = Restrict(call.data, Range(call.keys.list))
    /\ (\E fn \in {"pop_keys", "filter_keys"} : PredCall(fn))
       => ret.exc = "none"

C3_Witness ==
    /\ ListCall("filter_keys")
    /\ Len(call.data) = 2
    /\ \E k \in Range(call.keys.list) : k \notin KeySet(call.data)
    /\ \E k \in Range(call.keys.list) : k \in KeySet(call.data)
    /\ ret.exc = "none" /\ Len(ret.value) = 1

\* C4: MapToSeq.forward returns a tuple of length len(keys) whose i-th
\* element is r[keys[i]] and raises KeyError if a key of keys is missing
\* from r; when r has all of keys, SeqToMap.forward of that tuple with the
\* same keys is the sub-record of r over keys.
C4_RoundTrip ==
    (Done("MapToSeq.forward"))
    => LET r == call.data
       IN  IF Range(keys) \subseteq KeySet(r)
           THEN /\ ret.exc = "none"
                /\ Len(ret.value) = Len(keys)
                /\ \A i \in 1..Len(keys) : ret.value[i] = DictGet(r, keys[i])
                /\ LET back == SeqToMap_forward(keys, ret.value)
                   IN  /\ back.exc = "none"
                       /\ AsMap(back.value) = Restrict(r, Range(keys))
           ELSE ret.exc = "KeyError"

C4_Witness ==
    /\ Done("MapToSeq.forward")
    /\ Len(keys) = 2 /\ NoDup(keys) /\ Len(call.data) = 3
    /\ Range(keys) \subseteq KeySet(call.data)
    /\ ret.exc = "none" /\ ret.value[1] # ret.value[2]

\* C5 as claimed: SeqToMap.forward fails whenever len(tuple) # len(keys),
\* shorter or longer, and returns a record only when the lengths agree.
C5_AnyArityMismatchFails ==
    (Done("SeqToMap.forward"))
    => (ret.exc # "none" <=> Len(call.data) # Len(keys))

\* C5 amended: SeqToMap.forward fails (IndexError) exactly when the tuple
\* is shorter than keys; when it is as long or longer it returns the
\* record that maps each key to the tuple element at the key's (last)
\* position, and ignores the elements past len(keys).
C5_ShortTupleFails ==
    (Done("SeqToMap.forward"))
    => LET t == call.data
       IN  IF Len(t) < Len(keys)
           THEN ret.exc = "IndexError"
           ELSE /\ ret.exc = "none"
                /\ KeySet(ret.value) = Range(keys)
                /\ \A i \in 1..Len(keys) :
                      (\A j \in (i + 1)..Len(keys) : keys[j] # keys[i])
                      => DictGet(ret.value, keys[i]) = t[i]

C5_Witness ==
    /\ Done("SeqToMap.forward")
    /\ Len(keys) = 2 /\ Len(call.data) = 3
    /\ ret.exc = "none" /\ Len(ret.value) = 2

(* claims on the BoxSegCodec *)

\* every coordinate of box b lies inside the axis of the volume it
\* addresses (the last two axes for 4 coordinates, the last three for 6)
InBounds(b, shape) ==
    LET n == Len(shape)
        in(x, a) == 0 <= x /\ x < shape[a]
    IN  \/ /\ Len(b) = 4 /\ n >= 2
           /\ in(b[1], n - 1) /\ in(b[3], n - 1)
           /\ in(b[2], n) /\ in(b[4], n)
        \/ /\ Len(b) = 6 /\ n >= 3
           /\ in(b[1], n - 2) /\ in(b[3], n - 2)
           /\ in(b[2], n - 1) /\ in(b[4], n - 1)
           /\ in(b[5], n) /\ in(b[6], n)

\* cell c of an n-axis volume lies in the inclusive hyper-rectangle of b
Covers(b, c, n) ==
    IF Len(b) = 4
    THEN /\ b[1] <= c[n - 1] /\ c[n - 1] <= b[3]
         /\ b[2] <= c[n] /\ c[n] <= b[4]
    ELSE /\ b[1] <= c[n - 2] /\ c[n - 2] <= b[3]
         /\ b[2] <= c[n - 1] /\ c[n - 1] <= b[4]
         /\ b[5] <= c[n] /\ c[n] <= b[6]

\* the 1-based position of the last box of the list covering c, else 0
LastCover(boxes, c, n) ==
    LET S == {i \in 1..Len(boxes) : Covers(boxes[i], c, n)}
    IN  IF S = {} THEN 0 ELSE MaxOf(S)

\* box_to_seg was called without a buffer on in-bounds boxes
EncodedFresh ==
    /\ Done("box_to_seg") /\ call.out = NoBuffer
    /\ \A i \in 1..Len(call.boxes) : InBounds(call.boxes[i], call.shape)

\* C6: box_to_seg on a freshly allocated volume, for in-bounds 2D or 3D
\* boxes: every cell holds the 1-based position of the last box whose
\* inclusive hyper-rectangle contains it, and 0 if no box contains it.
C6_LastWriteWins ==
    EncodedFresh
    => /\ ret.exc = "none"
       /\ ret.value.shape = call.shape
       /\ \A c \in Coords(call.shape) :
            ret.value.cells[c] =
                LastCover(call.boxes, c, Len(call.shape))

C6_Witness ==
    /\ EncodedFresh /\ Len(call.boxes) = 2
    /\ \E c, d, e \in Coords(call.shape) :
        /\ ret.value.cells[c] = 1 /\ Covers(call.boxes[1], c, Len(call.shape))
        /\ ret.value.cells[d] = 2 /\ Covers(call.boxes[1], d, Len(call.shape))
        /\ ret.value.cells[e] = 0

\* the bounding box of the cells S of an n-axis volume in the encoder's
\* layout min0,min1,max0,max1[,min2,max2]
BoundingBox(S, n, dim) ==
    LET lo(a) == MinOf({c[a] : c \in S})
        hi(a) == MaxOf({c[a] : c \in S})
    IN  IF dim = 2 THEN <<lo(n - 1), lo(n), hi(n - 1), hi(n)>>
        ELSE <<lo(n - 2), lo(n - 1), hi(n - 2), hi(n - 1), lo(n), hi(n)>>

\* box d lies inside box b (same layout)
Inside(d, b) ==
    /\ b[1] <= d[1] /\ d[3] <= b[3]
    /\ b[2] <= d[2] /\ d[4] <= b[4]
    /\ Len(b) = 6 => (b[5] <= d[5] /\ d[6] <= b[6])

\* the spatial dimensions the boxes of a list are written in
BoxDims(boxes) ==
    IF boxes = <<>> THEN {2, 3} ELSE {Len(boxes[i]) \div 2 : i \in 1..Len(boxes)}

\* box_to_seg produced an integer volume from boxes of one layout, each
\* of which keeps at least one cell
Decodable ==
    /\ EncodedFresh /\ call.dtype = "int64"
    /\ call.boxes # <<>> => Cardinality(BoxDims(call.boxes)) = 1
    /\ \A i \in 1..Len(call.boxes) : nonzero(ret.value, i) # {}

\* C7: decoding an encoded list b of in-bounds boxes that each keep a
\* cell returns len(b) boxes; box i is the bounding box of the cells
\* holding label i in the layout min0,min1,max0,max1[,min2,max2], lies
\* inside input box i, and equals it when no later box overlaps it.
C7_DecodeAfterEncode ==
    Decodable
    => \A dim \in BoxDims(call.boxes) :
        LET n == Len(call.shape)
            dec == seg_to_box(ret.value, dim)
        IN  dim <= n
            => /\ dec.exc = "none"
               /\ Len(dec.value) = Len(call.boxes)
               /\ \A i \in 1..Len(call.boxes) :
                    /\ dec.value[i] =
                         BoundingBox(nonzero(ret.value, i), n, dim)
                    /\ Inside(dec.value[i], call.boxes[i])
                    /\ (\A j \in (i + 1)..Len(call.boxes) :
                          \A c \in Coords(call.shape) :
                            ~(Covers(call.boxes[i], c, n)
                                /\ Covers(call.boxes[j], c, n)))
                       => dec.value[i] = call.boxes[i]

C7_Witness ==
    /\ Decodable /\ Len(call.boxes) = 2 /\ Len(call.shape) = 3
    /\ Len(call.boxes[1]) = 6
    /\ seg_to_box(ret.value, 3).exc = "none"
    /\ seg_to_box(ret.value, 3).value[1] # call.boxes[1]
    /\ seg_to_box(ret.value, 3).value[2] = call.boxes[2]

\* some label of 1..max(seg) occupies no cell of seg
HasHole(seg) ==
    \E l \in 1..MaxOf({seg.cells[c] : c \in DOMAIN seg.cells}) :
        nonzero(seg, l) = {}

\* C8: seg_to_box visits every label from 1 to max(seg); if a label of
\* that range occupies no cell (a hole in the numbering, or a box fully
\* overwritten by later boxes) the call ends in the error of the empty
\* min/max reduction and returns no box list; without a hole it returns
\* max(seg) boxes.
C8_HoleRaises ==
    /\ (Done("seg_to_box") /\ call.seg.dtype = "int64")
       => LET top == MaxOf({call.seg.cells[c] : c \in DOMAIN call.seg.cells})
          IN  IF HasHole(call.seg)
              THEN /\ ret.exc # "none" /\ ret.value = <<>>
                   /\ call.dim <= Len(call.seg.shape)
                        => ret.exc = "IndexError" /\ ret.at = "min"
              ELSE call.dim <= Len(call.seg.shape)
                    => ret.exc = "none" /\ Len(ret.value) = top
    /\ (EncodedFresh /\ call.dtype = "int64" /\ HasHole(ret.value))
       => \A dim \in {2, 3} :
            /\ seg_to_box(ret.value, dim).exc # "none"
            /\ seg_to_box(ret.value, dim).value = <<>>

C8_Witness ==
    /\ Done("seg_to_box") /\ call.seg.dtype = "int64" /\ call.dim = 2
    /\ nonzero(call.seg, 1) # {} /\ nonzero(call.seg, 2) = {}
    /\ nonzero(call.seg, 3) # {}
    /\ ret.exc = "IndexError" /\ ret.at = "min"

(* claims on the SemanticMapper *)

\* C9 as claimed: instance_to_semantic fails with an index error whenever
\* the volume holds a label greater than len(classMap).
C9_LabelBeyondMapFails ==
    (/\ Done("instance_to_semantic")
     /\ \E c \in DOMAIN call.instance.cells :
            call.instance.cells[c] > Len(call.cls))
    => ret.exc = "IndexError"

\* C9 amended: instance_to_semantic never fails on a label greater than
\* len(classMap): it returns a volume of the same shape in which every
\* cell with label i in 1..len(classMap) holds classMap[i-1] and every
\* other cell, background or a label beyond the map, holds 0; the
\* instance volume is left as it was.
C9_LabelBeyondMapIsBackground ==
    Done("instance_to_semantic")
    => /\ ret.exc = "none"
       /\ ret.value.shape = call.instance.shape
       /\ \A c \in DOMAIN call.instance.cells :
            LET l == call.instance.cells[c]
            IN  ret.value.cells[c] =
                    IF l \in 1..Len(call.cls) THEN call.cls[l] ELSE 0
       /\ instance = call.instance

C9_Witness ==
    /\ Done("instance_to_semantic") /\ Len(call.cls) = 2
    /\ \E c, d \in DOMAIN call.instance.cells :
        /\ call.instance.cells[c] = 3 /\ ret.value.cells[c] = 0
        /\ call.instance.cells[d] = 2 /\ ret.value.cells[d] = call.cls[2]
    /\ ret.exc = "none"

(* claims on buffer reuse *)

\* box_to_seg was called with the caller's buffer and returned
Reused == Done("box_to_seg") /\ call.out # NoBuffer /\ ret.exc = "none"

\* C10 as claimed: with a caller-supplied buffer the volume is zeroed
\* before painting, so the result equals the result of the same call on a
\* freshly allocated volume.
C10_BufferZeroedOnReuse ==
    Reused
    => ret.value.cells =
        box_to_seg(call.boxes, call.out.shape, "int64", NoBuffer).value.cells

\* C10 amended: with a caller-supplied buffer box_to_seg paints onto the
\* buffer as it is and returns that buffer: a cell covered by a box of
\* the call holds the position of the last box covering it, every other
\* cell keeps the value it had before the call; the result equals that of
\* a freshly allocated volume when the buffer was all zero on entry.
C10_BufferPaintedOver ==
    Reused
    => /\ ret.value = out
       /\ (\A i \in 1..Len(call.boxes) : InBounds(call.boxes[i], call.out.shape))
          => \A c \in Coords(call.out.shape) :
                LET last == LastCover(call.boxes, c, Len(call.out.shape))
                IN  ret.value.cells[c] =
                        IF last = 0 THEN call.out.cells[c] ELSE last
       /\ (\A c \in Coords(call.out.shape) : call.out.cells[c] = 0)
          => ret.value.cells =
                box_to_seg(call.boxes, call.out.shape, "int64",
                           NoBuffer).value.cells

C10_Witness ==
    /\ Reused /\ Len(call.boxes) = 2
    /\ \E c, d \in Coords(call.out.shape) :
        /\ call.out.cells[c] = 9 /\ ret.value.cells[c] = 9
        /\ call.out.cells[d] = 9 /\ ret.value.cells[d] = 2

====
